---- MODULE Spec2Model ----
(***************************************************************************)
(* Model of markdown-translator.js: the batch translation pipeline         *)
(* (scanner, staleness check, translation call, output writer, batch       *)
(* loop) run as a process against a file system, possibly several times.   *)
(*                                                                         *)
(* A path is a sequence of segments, a segment is a string; <<>> is the    *)
(* working directory.  The file system maps each existing path to a node.  *)
(***************************************************************************)
EXTENDS Integers, Sequences, FiniteSets, TLC

VARIABLES
  fs,               \* file system: existing path -> node
  listing,          \* directory path -> names in the order readdir returns them
  now,              \* wall clock, the mtime a write stamps on a file
  MODEL_NAME,       \* argv.model of the running process
  FORCE_TRANSLATE,  \* argv.force of the running process
  MODEL_DIR_NAME,   \* the directory name made of MODEL_NAME at process start
  OUTPUT_DIR,       \* the output directory, set at process start
  pc,               \* position of the process
  markdownFiles,    \* result of the scan, the batch
  idx,              \* position of the for-of loop in the batch (1-based)
  translatedCount,
  skippedCount,
  exitCode,         \* -1 while running, 0 normal end, 1 process.exit(1)
  events,           \* what the running process did, in order
  fsAtStart,        \* the file system when the running process started
  prev,             \* what the previous process run was and did
  runNo,            \* number of process runs started
  touches,          \* number of source edits so far
  faults            \* number of injected I/O and service failures so far

vars == <<fs, listing, now, MODEL_NAME, FORCE_TRANSLATE, MODEL_DIR_NAME, OUTPUT_DIR,
          pc, markdownFiles, idx,
          translatedCount, skippedCount, exitCode, events, fsAtStart, prev,
          runNo, touches, faults>>

(***************************** bounds ***************************************)
MaxRuns    == 2
MaxTouches == 1
MaxFaults  == 1

(***************************** configuration ********************************)
SOURCE_DIR      == <<"md">>
BASE_OUTPUT_DIR == <<"out">>

\* the values of --model that are tried
ModelNames == {"g.2", "g/2", "g_2"}

(***************************** strings and paths ****************************)
WordChars ==
  {"a","b","c","d","e","f","g","h","i","j","k","l","m","n","o","p","q","r","s",
   "t","u","v","w","x","y","z","A","B","C","D","E","F","G","H","I","J","K","L",
   "M","N","O","P","Q","R","S","T","U","V","W","X","Y","Z","0","1","2","3","4",
   "5","6","7","8","9","_"}

\* MODEL_NAME.replace(/[^\w.-]/g, "_")
RECURSIVE SanitizeModelName(_)
SanitizeModelName(s) ==
  IF Len(s) = 0 THEN ""
  ELSE LET c == SubSeq(s, 1, 1)
       IN  (IF c \in WordChars \cup {".", "-"} THEN c ELSE "_")
             \o SanitizeModelName(SubSeq(s, 2, Len(s)))

\* String.prototype.endsWith
EndsWith(s, suffix) ==
  /\ Len(s) >= Len(suffix)
  /\ SubSeq(s, Len(s) - Len(suffix) + 1, Len(s)) = suffix

Front(p) == SubSeq(p, 1, Len(p) - 1)
Last(p)  == p[Len(p)]

\* path.normalize on a relative path: "." and "" vanish, ".." eats a segment
RECURSIVE NormalizeFrom(_, _)
NormalizeFrom(acc, rest) ==
  IF rest = <<>> THEN acc
  ELSE LET seg == Head(rest)
       IN  IF seg = "." \/ seg = ""
             THEN NormalizeFrom(acc, Tail(rest))
           ELSE IF seg = ".." /\ acc # <<>> /\ Last(acc) # ".."
             THEN NormalizeFrom(Front(acc), Tail(rest))
           ELSE NormalizeFrom(Append(acc, seg), Tail(rest))

\* path.join(a, b)
PathJoin(a, b) == NormalizeFrom(<<>>, a \o b)

\* path.basename(p), as a path of one segment
PathBasename(p) == IF p = <<>> THEN <<>> ELSE <<Last(p)>>

\* path.dirname(p)
PathDirname(p) == IF p = <<>> THEN <<>> ELSE Front(p)

\* path.relative(from, to)
RECURSIVE PathRelative(_, _)
PathRelative(from, to) ==
  IF from # <<>> /\ to # <<>> /\ Head(from) = Head(to)
    THEN PathRelative(Tail(from), Tail(to))
    ELSE [i \in 1..Len(from) |-> ".."] \o to

\* variant: the output directory is the base directory for every model
OutputDirOf_NoModel(modelDirName) == BASE_OUTPUT_DIR

\* const OUTPUT_DIR = path.join(BASE_OUTPUT_DIR, MODEL_DIR_NAME)
OutputDirOf(modelDirName) == PathJoin(BASE_OUTPUT_DIR, <<modelDirName>>)

(***************************** file system **********************************)
NoContent == [lang |-> "", of |-> <<>>, by |-> ""]
DirNode == [kind |-> "dir", mtime |-> 0, content |-> NoContent]
SourceFile(t) ==
  [kind |-> "file", mtime |-> t, content |-> [lang |-> "en", of |-> <<>>, by |-> ""]]
TranslatedFile(t, file, model) ==
  [kind |-> "file", mtime |-> t, content |-> [lang |-> "ja", of |-> file, by |-> model]]

Exists(f, p) == p \in DOMAIN f
IsDir(f, p)  == Exists(f, p) /\ f[p].kind = "dir"
IsFile(f, p) == Exists(f, p) /\ f[p].kind = "file"

Prefixes(p) == {SubSeq(p, 1, n) : n \in 0..Len(p)}

\* fs.mkdir(p, {recursive: true}) fails when a prefix of p is a file
MkdirOk(f, p) == \A q \in Prefixes(p) : ~IsFile(f, q)
MkdirP(f, p) ==
  [q \in DOMAIN f \cup Prefixes(p) |-> IF q \in DOMAIN f THEN f[q] ELSE DirNode]

\* fs.writeFile(p, content) fails when p is a directory or its parent is none
WriteOk(f, p) == ~IsDir(f, p) /\ IsDir(f, PathDirname(p)) /\ p # <<>>
WriteFile(f, p, node) ==
  [q \in DOMAIN f \cup {p} |-> IF q = p THEN node ELSE f[q]]

(***************************** source trees *********************************)
\* a source tree: the nodes under SOURCE_DIR and what readdir returns for
\* each directory.  Every source file was last modified at time 1.
SUB == SOURCE_DIR \o <<"sub">>

\* no matching document at all
TreeEmpty ==
  [nodes   |-> (SOURCE_DIR :> DirNode) @@ (SOURCE_DIR \o <<"notes.txt">> :> SourceFile(1)),
   listing |-> (SOURCE_DIR :> <<"notes.txt">>)]

\* one document, in a subdirectory
TreeNested ==
  [nodes   |-> (SOURCE_DIR :> DirNode) @@ (SUB :> DirNode)
                 @@ (SUB \o <<"b.markdown">> :> SourceFile(1)),
   listing |-> (SOURCE_DIR :> <<"sub">>) @@ (SUB :> <<"b.markdown">>)]

\* two documents; the one in the subdirectory has the name of the one at the root
TreeMixed ==
  [nodes   |-> (SOURCE_DIR :> DirNode) @@ (SUB :> DirNode)
                 @@ (SOURCE_DIR \o <<"a.md">> :> SourceFile(1))
                 @@ (SUB \o <<"a.md">> :> SourceFile(1))
                 @@ (SOURCE_DIR \o <<"notes.txt">> :> SourceFile(1)),
   listing |-> (SOURCE_DIR :> <<"a.md", "sub", "notes.txt">>)
                 @@ (SUB :> <<"a.md">>)]

\* the source root does not exist
TreeMissing == [nodes |-> <<>>, listing |-> <<>>]

SourceTrees == {TreeEmpty, TreeNested, TreeMixed, TreeMissing}

Cwd == (<<>> :> DirNode)

(***************************** the scanner **********************************)
\* findMarkdownFiles: readdir, then stat every entry in order; a directory is
\* descended into, a name ending in .md or .markdown is collected.  An error
\* anywhere in the body makes the call for this directory return [].
\* variant: text files are collected as well
IsMarkdownName_OrText(file) ==
  EndsWith(file, ".md") \/ EndsWith(file, ".markdown") \/ EndsWith(file, ".txt")

\* file.endsWith(".md") || file.endsWith(".markdown")
IsMarkdownName(file) == EndsWith(file, ".md") \/ EndsWith(file, ".markdown")

RECURSIVE findMarkdownFiles(_, _, _)
RECURSIVE ScanEntries(_, _, _, _)
\* variant: the error of a subdirectory is not caught at its own level, it
\* ends the scan of the directory above as well
ScanEntries_Propagate(f, lst, directory, entries) ==
  IF entries = <<>> THEN [err |-> FALSE, out |-> <<>>]
  ELSE LET file     == Head(entries)
           filePath == PathJoin(directory, <<file>>)
       IN  IF ~Exists(f, filePath) THEN [err |-> TRUE, out |-> <<>>]
           ELSE LET here ==
                      IF IsDir(f, filePath)
                        THEN IF filePath \in DOMAIN lst
                               THEN ScanEntries(f, lst, filePath, lst[filePath])
                               ELSE [err |-> TRUE, out |-> <<>>]
                      ELSE IF IsMarkdownName(file)
                        THEN [err |-> FALSE, out |-> <<filePath>>]
                      ELSE [err |-> FALSE, out |-> <<>>]
                    rest == ScanEntries(f, lst, directory, Tail(entries))
                IN  IF here.err THEN here
                    ELSE IF rest.err THEN rest
                    ELSE [err |-> FALSE, out |-> here.out \o rest.out]

\* the for-of loop over the entries: the files collected, or the error thrown
ScanEntries(f, lst, directory, entries) ==
  IF entries = <<>> THEN [err |-> FALSE, out |-> <<>>]
  ELSE LET file     == Head(entries)
           filePath == PathJoin(directory, <<file>>)
       IN  IF ~Exists(f, filePath) THEN [err |-> TRUE, out |-> <<>>]
           ELSE LET here ==
                      IF IsDir(f, filePath)
                        THEN findMarkdownFiles(f, lst, filePath)
                      ELSE IF IsMarkdownName(file)
                        THEN <<filePath>>
                      ELSE <<>>
                    rest == ScanEntries(f, lst, directory, Tail(entries))
                IN  IF rest.err THEN rest
                    ELSE [err |-> FALSE, out |-> here \o rest.out]

findMarkdownFiles(f, lst, directory) ==
  IF ~IsDir(f, directory) \/ directory \notin DOMAIN lst THEN <<>>
  ELSE LET r == ScanEntries(f, lst, directory, lst[directory])
       IN  IF r.err THEN <<>> ELSE r.out

(***************************** the staleness check **************************)
\* isAlreadyTranslated(filePath): stat the output file, stat the source file,
\* compare; any stat error gives false
isAlreadyTranslated(f, outputDir, filePath) ==
  LET outputPath == PathJoin(outputDir, PathBasename(filePath))
  IN  /\ Exists(f, outputPath)
      /\ Exists(f, filePath)
      /\ f[outputPath].kind = "file"
      /\ f[outputPath].mtime >= f[filePath].mtime

(***************************** the output writer ****************************)
\* variant: the output path is built from the file name alone
SaveOutputPath_Flat(outputDir, filePath) ==
  PathJoin(outputDir, PathBasename(filePath))

\* the path saveTranslatedFile writes for filePath
SaveOutputPath(outputDir, filePath) ==
  PathJoin(outputDir, PathRelative(SOURCE_DIR, filePath))

\* saveTranslatedFile(filePath, content): mkdir OUTPUT_DIR, mkdir the parent
\* of the output path, write the file; an error at any step ends the call
\* (it is caught and logged) with what was done so far.  fault is the step the
\* environment makes fail: "none", "mkdir" or "write".
saveTranslatedFile(f, outputDir, model, filePath, t, fault) ==
  LET outputPath == SaveOutputPath(outputDir, filePath)
      f1 == MkdirP(f, outputDir)
      f2 == MkdirP(f1, PathDirname(outputPath))
  IN  IF fault = "mkdir" \/ ~MkdirOk(f, outputDir) THEN [fs |-> f, ok |-> FALSE]
      ELSE IF ~MkdirOk(f1, PathDirname(outputPath)) THEN [fs |-> f1, ok |-> FALSE]
      ELSE IF fault = "write" \/ ~WriteOk(f2, outputPath) THEN [fs |-> f2, ok |-> FALSE]
      ELSE [fs |-> WriteFile(f2, outputPath, TranslatedFile(t, filePath, model)),
            ok |-> TRUE]

(***************************** the process **********************************)
Event(e, i, p) == [ev |-> e, i |-> i, path |-> p]
NoPrev ==
  [model |-> "", modelDirName |-> "", outputDir |-> <<>>, force |-> FALSE,
   files |-> <<>>, saved |-> {}, modified |-> {}, exitCode |-> -1]

Init ==
  /\ \E tree \in SourceTrees :
       /\ fs = tree.nodes @@ Cwd
       /\ listing = tree.listing
       /\ fsAtStart = tree.nodes @@ Cwd
  /\ now = 1
  /\ MODEL_NAME \in ModelNames
  /\ MODEL_DIR_NAME = SanitizeModelName(MODEL_NAME)
  /\ OUTPUT_DIR = OutputDirOf(MODEL_DIR_NAME)
  /\ FORCE_TRANSLATE \in BOOLEAN
  /\ pc = "main"
  /\ markdownFiles = <<>>
  /\ idx = 1
  /\ translatedCount = 0
  /\ skippedCount = 0
  /\ exitCode = -1
  /\ events = <<>>
  /\ prev = NoPrev
  /\ runNo = 1
  /\ touches = 0
  /\ faults = 0

\* variant: the result of fs.access is not acted upon
checkSourceDirectory_NoExit ==
  /\ pc = "main"
  /\ pc' = "scan"
  /\ UNCHANGED <<fs, listing, now, MODEL_NAME, FORCE_TRANSLATE, MODEL_DIR_NAME,
                 OUTPUT_DIR, markdownFiles, idx,
                 translatedCount, skippedCount, exitCode, events, fsAtStart, prev,
                 runNo, touches, faults>>

\* checkSourceDirectory: fs.access(SOURCE_DIR); on error log and exit(1)
checkSourceDirectory ==
  /\ pc = "main"
  /\ IF Exists(fs, SOURCE_DIR)
       THEN /\ pc' = "scan"
            /\ UNCHANGED exitCode
       ELSE /\ pc' = "exited"
            /\ exitCode' = 1
  /\ UNCHANGED <<fs, listing, now, MODEL_NAME, FORCE_TRANSLATE, MODEL_DIR_NAME,
                 OUTPUT_DIR, markdownFiles, idx,
                 translatedCount, skippedCount, events, fsAtStart, prev, runNo,
                 touches, faults>>

\* translateMarkdownFiles up to the call of processBatchWithDelay
translateMarkdownFiles ==
  /\ pc = "scan"
  /\ LET found == findMarkdownFiles(fs, listing, SOURCE_DIR)
     IN  /\ markdownFiles' = found
         /\ events' = Append(events, Event("scan", 0, SOURCE_DIR))
         /\ IF Len(found) = 0
              THEN /\ pc' = "exited"
                   /\ exitCode' = 0
              ELSE /\ pc' = "batch"
                   /\ UNCHANGED exitCode
  /\ idx' = 1
  /\ translatedCount' = 0
  /\ skippedCount' = 0
  /\ UNCHANGED <<fs, listing, now, MODEL_NAME, FORCE_TRANSLATE, MODEL_DIR_NAME,
                 OUTPUT_DIR, fsAtStart, prev,
                 runNo, touches, faults>>

\* variant: the skip condition does not look at FORCE_TRANSLATE
ShouldSkip_IgnoreForce(f, force, outputDir, file) ==
  isAlreadyTranslated(f, outputDir, file)

\* !FORCE_TRANSLATE && (await isAlreadyTranslated(file))
ShouldSkip(f, force, outputDir, file) ==
  ~force /\ isAlreadyTranslated(f, outputDir, file)

\* variant: the output directory is made at the head of the loop body, before
\* it is known whether the file will be written
beginItem_MkdirFirst ==
  /\ pc = "batch"
  /\ idx <= Len(markdownFiles)
  /\ LET file == markdownFiles[idx]
         begun == Append(events, Event("begin", idx, file))
         asked == IF FORCE_TRANSLATE THEN begun
                  ELSE Append(begun, Event("stat", idx, file))
     IN  IF ShouldSkip(fs, FORCE_TRANSLATE, OUTPUT_DIR, file)
           THEN /\ events' = Append(asked, Event("skip", idx, file))
                /\ skippedCount' = skippedCount + 1
                /\ idx' = idx + 1
                /\ pc' = "batch"
           ELSE /\ events' = asked
                /\ pc' = "read"
                /\ UNCHANGED <<idx, skippedCount>>
  /\ fs' = IF MkdirOk(fs, OUTPUT_DIR) THEN MkdirP(fs, OUTPUT_DIR) ELSE fs
  /\ UNCHANGED <<listing, now, MODEL_NAME, FORCE_TRANSLATE, MODEL_DIR_NAME,
                 OUTPUT_DIR, markdownFiles,
                 translatedCount, exitCode, fsAtStart, prev, runNo, touches, faults>>

\* variant: a translated file ends the loop (break) instead of the iteration
beginItem_SkipBreak ==
  /\ pc = "batch"
  /\ idx <= Len(markdownFiles)
  /\ LET file == markdownFiles[idx]
         begun == Append(events, Event("begin", idx, file))
         asked == IF FORCE_TRANSLATE THEN begun
                  ELSE Append(begun, Event("stat", idx, file))
     IN  IF ShouldSkip(fs, FORCE_TRANSLATE, OUTPUT_DIR, file)
           THEN /\ events' = Append(asked, Event("skip", idx, file))
                /\ skippedCount' = skippedCount + 1
                /\ idx' = Len(markdownFiles) + 1
                /\ pc' = "batch"
           ELSE /\ events' = asked
                /\ pc' = "read"
                /\ UNCHANGED <<idx, skippedCount>>
  /\ UNCHANGED <<fs, listing, now, MODEL_NAME, FORCE_TRANSLATE, MODEL_DIR_NAME,
                 OUTPUT_DIR, markdownFiles,
                 translatedCount, exitCode, fsAtStart, prev, runNo, touches, faults>>

\* the head of the loop body: the log line, then the skip decision
beginItem ==
  /\ pc = "batch"
  /\ idx <= Len(markdownFiles)
  /\ LET file == markdownFiles[idx]
         begun == Append(events, Event("begin", idx, file))
         \* && evaluates isAlreadyTranslated only when FORCE_TRANSLATE is false
         asked == IF FORCE_TRANSLATE THEN begun
                  ELSE Append(begun, Event("stat", idx, file))
     IN  IF ShouldSkip(fs, FORCE_TRANSLATE, OUTPUT_DIR, file)
           THEN /\ events' = Append(asked, Event("skip", idx, file))
                /\ skippedCount' = skippedCount + 1
                /\ idx' = idx + 1
                /\ pc' = "batch"
           ELSE /\ events' = asked
                /\ pc' = "read"
                /\ UNCHANGED <<idx, skippedCount>>
  /\ UNCHANGED <<fs, listing, now, MODEL_NAME, FORCE_TRANSLATE, MODEL_DIR_NAME,
                 OUTPUT_DIR, markdownFiles,
                 translatedCount, exitCode, fsAtStart, prev, runNo, touches, faults>>

\* variant: the content is not tested, the empty string of a failed read is
\* sent to the service
readItem_SendEmpty ==
  /\ pc = "read"
  /\ LET file == markdownFiles[idx]
     IN  \E readable \in BOOLEAN :
           IF readable
             THEN /\ events' = Append(Append(events, Event("read", idx, file)),
                                      Event("request", idx, file))
                  /\ pc' = "translate"
                  /\ UNCHANGED <<idx, faults>>
             ELSE /\ faults < MaxFaults
                  /\ faults' = faults + 1
                  /\ events' = Append(Append(events, Event("readfail", idx, file)),
                                      Event("request", idx, file))
                  /\ pc' = "translate"
                  /\ UNCHANGED idx
  /\ UNCHANGED <<fs, listing, now, MODEL_NAME, FORCE_TRANSLATE, MODEL_DIR_NAME,
                 OUTPUT_DIR, markdownFiles,
                 translatedCount, skippedCount, exitCode, fsAtStart, prev, runNo,
                 touches>>

\* variant: the request is not awaited, the loop goes on to the next file
\* while it is out
readItem_NoAwait ==
  /\ pc = "read"
  /\ LET file == markdownFiles[idx]
     IN  \E readable \in BOOLEAN :
           IF readable
             THEN /\ events' = Append(Append(events, Event("read", idx, file)),
                                      Event("request", idx, file))
                  /\ idx' = idx + 1
                  /\ pc' = "batch"
                  /\ UNCHANGED faults
             ELSE /\ faults < MaxFaults
                  /\ faults' = faults + 1
                  /\ events' = Append(events, Event("readfail", idx, file))
                  /\ idx' = idx + 1
                  /\ pc' = "batch"
  /\ UNCHANGED <<fs, listing, now, MODEL_NAME, FORCE_TRANSLATE, MODEL_DIR_NAME,
                 OUTPUT_DIR, markdownFiles,
                 translatedCount, skippedCount, exitCode, fsAtStart, prev, runNo,
                 touches>>

\* readMarkdownFile and the test of its result; with content the request to
\* the translation service goes out
readItem ==
  /\ pc = "read"
  /\ LET file == markdownFiles[idx]
     IN  \E readable \in BOOLEAN :
           IF readable
             THEN /\ events' = Append(Append(events, Event("read", idx, file)),
                                      Event("request", idx, file))
                  /\ pc' = "translate"
                  /\ UNCHANGED <<idx, faults>>
             ELSE /\ faults < MaxFaults
                  /\ faults' = faults + 1
                  /\ events' = Append(events, Event("readfail", idx, file))
                  /\ idx' = idx + 1
                  /\ pc' = "batch"
  /\ UNCHANGED <<fs, listing, now, MODEL_NAME, FORCE_TRANSLATE, MODEL_DIR_NAME,
                 OUTPUT_DIR, markdownFiles,
                 translatedCount, skippedCount, exitCode, fsAtStart, prev, runNo,
                 touches>>

\* variant: after an empty translation the loop continues without the delay
translateReturns_NoDelay ==
  /\ pc = "translate"
  /\ LET file == markdownFiles[idx]
     IN  \E translated \in BOOLEAN :
           IF translated
             THEN /\ events' = Append(events, Event("response", idx, file))
                  /\ pc' = "save"
                  /\ UNCHANGED <<faults, idx>>
             ELSE /\ faults < MaxFaults
                  /\ faults' = faults + 1
                  /\ events' = Append(events, Event("empty", idx, file))
                  /\ idx' = idx + 1
                  /\ pc' = "batch"
  /\ UNCHANGED <<fs, listing, now, MODEL_NAME, FORCE_TRANSLATE, MODEL_DIR_NAME,
                 OUTPUT_DIR, markdownFiles,
                 translatedCount, skippedCount, exitCode, fsAtStart, prev, runNo,
                 touches>>

\* variant: the service error is not caught in translateToJapanese; it leaves
\* the loop and the process ends without a summary
translateReturns_Abort ==
  /\ pc = "translate"
  /\ LET file == markdownFiles[idx]
     IN  \E translated \in BOOLEAN :
           IF translated
             THEN /\ events' = Append(events, Event("response", idx, file))
                  /\ pc' = "save"
                  /\ UNCHANGED <<faults, exitCode>>
             ELSE /\ faults < MaxFaults
                  /\ faults' = faults + 1
                  /\ events' = Append(events, Event("empty", idx, file))
                  /\ pc' = "exited"
                  /\ exitCode' = 0
  /\ UNCHANGED <<fs, listing, now, MODEL_NAME, FORCE_TRANSLATE, MODEL_DIR_NAME,
                 OUTPUT_DIR, markdownFiles, idx,
                 translatedCount, skippedCount, fsAtStart, prev, runNo, touches>>

\* variant: the caller does not test the result, an empty translation is
\* handed to saveTranslatedFile like any other
translateReturns_SaveEmpty ==
  /\ pc = "translate"
  /\ LET file == markdownFiles[idx]
     IN  \E translated \in BOOLEAN :
           IF translated
             THEN /\ events' = Append(events, Event("response", idx, file))
                  /\ pc' = "save"
                  /\ UNCHANGED faults
             ELSE /\ faults < MaxFaults
                  /\ faults' = faults + 1
                  /\ events' = Append(events, Event("empty", idx, file))
                  /\ pc' = "save"
  /\ UNCHANGED <<fs, listing, now, MODEL_NAME, FORCE_TRANSLATE, MODEL_DIR_NAME,
                 OUTPUT_DIR, markdownFiles, idx,
                 translatedCount, skippedCount, exitCode, fsAtStart, prev, runNo,
                 touches>>

\* translateToJapanese returns: the translation, or "" after an error
translateReturns ==
  /\ pc = "translate"
  /\ LET file == markdownFiles[idx]
     IN  \E translated \in BOOLEAN :
           IF translated
             THEN /\ events' = Append(events, Event("response", idx, file))
                  /\ pc' = "save"
                  /\ UNCHANGED faults
             ELSE /\ faults < MaxFaults
                  /\ faults' = faults + 1
                  /\ events' = Append(events, Event("empty", idx, file))
                  /\ pc' = "delay"
  /\ UNCHANGED <<fs, listing, now, MODEL_NAME, FORCE_TRANSLATE, MODEL_DIR_NAME,
                 OUTPUT_DIR, markdownFiles, idx,
                 translatedCount, skippedCount, exitCode, fsAtStart, prev, runNo,
                 touches>>

\* variant: after the save the loop takes the next file at once
saveItem_NoDelay ==
  /\ pc = "save"
  /\ LET file == markdownFiles[idx]
     IN  \E fault \in {"none", "mkdir", "write"} :
           /\ fault # "none" => faults < MaxFaults
           /\ faults' = IF fault = "none" THEN faults ELSE faults + 1
           /\ LET r == saveTranslatedFile(fs, OUTPUT_DIR, MODEL_NAME, file, now, fault)
              IN  /\ fs' = r.fs
                  /\ events' = Append(events,
                                 Event(IF r.ok THEN "write" ELSE "writefail", idx,
                                       SaveOutputPath(OUTPUT_DIR, file)))
  /\ translatedCount' = translatedCount + 1
  /\ idx' = idx + 1
  /\ pc' = "batch"
  /\ UNCHANGED <<listing, now, MODEL_NAME, FORCE_TRANSLATE, MODEL_DIR_NAME,
                 OUTPUT_DIR, markdownFiles,
                 skippedCount, exitCode, fsAtStart, prev, runNo, touches>>

\* saveTranslatedFile(file, translated); translatedCount++
saveItem ==
  /\ pc = "save"
  /\ LET file == markdownFiles[idx]
     IN  \E fault \in {"none", "mkdir", "write"} :
           /\ fault # "none" => faults < MaxFaults
           /\ faults' = IF fault = "none" THEN faults ELSE faults + 1
           /\ LET r == saveTranslatedFile(fs, OUTPUT_DIR, MODEL_NAME, file, now, fault)
              IN  /\ fs' = r.fs
                  /\ events' = Append(events,
                                 Event(IF r.ok THEN "write" ELSE "writefail", idx,
                                       SaveOutputPath(OUTPUT_DIR, file)))
  /\ translatedCount' = translatedCount + 1
  /\ pc' = "delay"
  /\ UNCHANGED <<listing, now, MODEL_NAME, FORCE_TRANSLATE, MODEL_DIR_NAME,
                 OUTPUT_DIR, markdownFiles, idx,
                 skippedCount, exitCode, fsAtStart, prev, runNo, touches>>

\* the setTimeout of one second at the end of the loop body
delay ==
  /\ pc = "delay"
  /\ events' = Append(events, Event("delay", idx, markdownFiles[idx]))
  /\ idx' = idx + 1
  /\ pc' = "batch"
  /\ UNCHANGED <<fs, listing, now, MODEL_NAME, FORCE_TRANSLATE, MODEL_DIR_NAME,
                 OUTPUT_DIR, markdownFiles,
                 translatedCount, skippedCount, exitCode, fsAtStart, prev, runNo,
                 touches, faults>>

\* the loop is over: processBatchWithDelay returns the counters and
\* translateMarkdownFiles prints the summary
printSummary ==
  /\ pc = "batch"
  /\ idx > Len(markdownFiles)
  /\ events' = Append(events, Event("summary", 0, <<>>))
  /\ pc' = "exited"
  /\ exitCode' = 0
  /\ UNCHANGED <<fs, listing, now, MODEL_NAME, FORCE_TRANSLATE, MODEL_DIR_NAME,
                 OUTPUT_DIR, markdownFiles, idx,
                 translatedCount, skippedCount, fsAtStart, prev, runNo, touches,
                 faults>>

(***************************** the environment ******************************)
SourceFiles(f) ==
  {p \in DOMAIN f : Len(p) > Len(SOURCE_DIR) /\ SubSeq(p, 1, Len(SOURCE_DIR)) = SOURCE_DIR
                    /\ f[p].kind = "file"}

\* the items of the running process whose output file was written
SavedItems == {events[k].i : k \in {j \in 1..Len(events) : events[j].ev = "write"}}

\* somebody edits a source document between two runs
touchSource ==
  /\ pc = "exited"
  /\ touches < MaxTouches
  /\ runNo < MaxRuns
  /\ \E p \in {q \in SourceFiles(fs) : IsMarkdownName(Last(q))} :
       fs' = [fs EXCEPT ![p].mtime = now + 1]
  /\ now' = now + 1
  /\ touches' = touches + 1
  /\ UNCHANGED <<listing, MODEL_NAME, FORCE_TRANSLATE, MODEL_DIR_NAME,
                 OUTPUT_DIR, pc, markdownFiles, idx, translatedCount, skippedCount,
                 exitCode, events, fsAtStart, prev,
                 runNo, faults>>

\* the tool is started again, with the same or with other options
startProcess ==
  /\ pc = "exited"
  /\ runNo < MaxRuns
  /\ runNo' = runNo + 1
  /\ MODEL_NAME' \in ModelNames
  /\ MODEL_DIR_NAME' = SanitizeModelName(MODEL_NAME')
  /\ OUTPUT_DIR' = OutputDirOf(MODEL_DIR_NAME')
  /\ FORCE_TRANSLATE' \in BOOLEAN
  /\ prev' = [model |-> MODEL_NAME, modelDirName |-> MODEL_DIR_NAME,
              outputDir |-> OUTPUT_DIR, force |-> FORCE_TRANSLATE,
              files |-> markdownFiles, saved |-> SavedItems,
              modified |-> {p \in SourceFiles(fs) : fs[p].mtime # fsAtStart[p].mtime},
              exitCode |-> exitCode]
  /\ fsAtStart' = fs
  /\ pc' = "main"
  /\ markdownFiles' = <<>>
  /\ idx' = 1
  /\ translatedCount' = 0
  /\ skippedCount' = 0
  /\ exitCode' = -1
  /\ events' = <<>>
  /\ UNCHANGED <<fs, listing, now, touches, faults>>

Next ==
  \/ checkSourceDirectory
  \/ translateMarkdownFiles
  \/ beginItem
  \/ readItem
  \/ translateReturns
  \/ saveItem
  \/ delay
  \/ printSummary
  \/ touchSource
  \/ startProcess

Spec == Init /\ [][Next]_vars

\* the steps of the process itself, as opposed to those of its user
ProcessStep ==
  \/ checkSourceDirectory
  \/ translateMarkdownFiles
  \/ beginItem
  \/ readItem
  \/ translateReturns
  \/ saveItem
  \/ delay
  \/ printSummary

\* Every awaited call of the process returns and node then runs the
\* continuation: the next step of the process (there is never more than one,
\* the position pc decides which) is eventually taken.  Nothing obliges the
\* user to edit a file or to run the tool again.
ProcessFairness == WF_vars(ProcessStep)

\* three documents, one at the root and two in a subdirectory
TreeThree ==
  [nodes   |-> (SOURCE_DIR :> DirNode) @@ (SUB :> DirNode)
                 @@ (SOURCE_DIR \o <<"a.md">> :> SourceFile(1))
                 @@ (SUB \o <<"a.md">> :> SourceFile(1))
                 @@ (SUB \o <<"c.md">> :> SourceFile(1)),
   listing |-> (SOURCE_DIR :> <<"a.md", "sub">>) @@ (SUB :> <<"a.md", "c.md">>)]

RunTrees == SourceTrees \cup {TreeThree}

\* the file system after an earlier run has saved a translation of each of
\* files at time t
RECURSIVE EarlierRun(_, _, _, _, _)
EarlierRun(f, outputDir, model, files, t) ==
  IF files = <<>> THEN f
  ELSE EarlierRun(saveTranslatedFile(f, outputDir, model, Head(files), t, "none").fs,
                  outputDir, model, Tail(files), t)

\* one run of the tool, at time 2, on a source tree alone or on one whose
\* documents an earlier run with the same model has translated at time 1
InitRun ==
  /\ MODEL_NAME \in ModelNames
  /\ MODEL_DIR_NAME = SanitizeModelName(MODEL_NAME)
  /\ OUTPUT_DIR = OutputDirOf(MODEL_DIR_NAME)
  /\ FORCE_TRANSLATE \in BOOLEAN
  /\ \E tree \in RunTrees, ranBefore \in BOOLEAN :
       LET bare  == tree.nodes @@ Cwd
           files == findMarkdownFiles(bare, tree.listing, SOURCE_DIR)
       IN  /\ fs = IF ranBefore
                      THEN EarlierRun(bare, OUTPUT_DIR, MODEL_NAME, files, 1)
                      ELSE bare
           /\ listing = tree.listing
           /\ fsAtStart = fs
  /\ now = 2
  /\ pc = "main"
  /\ markdownFiles = <<>>
  /\ idx = 1
  /\ translatedCount = 0
  /\ skippedCount = 0
  /\ exitCode = -1
  /\ events = <<>>
  /\ prev = NoPrev
  /\ runNo = 1
  /\ touches = 0
  /\ faults = 0

FairSpec == InitRun /\ [][ProcessStep]_vars /\ ProcessFairness

(***************************** the scanner on damaged trees *****************)
\* One source tree with documents before, in, below, beside and after a
\* subdirectory; a scan of it goes wrong where a directory cannot be read
\* (readdir fails) or lists a name that stat does not find.
D1 == SOURCE_DIR \o <<"d1">>
DD == D1 \o <<"dd">>
D2 == SOURCE_DIR \o <<"d2">>
ScanDirs == {SOURCE_DIR, D1, DD, D2}

ScanNodes ==
  (SOURCE_DIR :> DirNode) @@ (D1 :> DirNode) @@ (DD :> DirNode) @@ (D2 :> DirNode)
    @@ (SOURCE_DIR \o <<"a.md">> :> SourceFile(1))
    @@ (SOURCE_DIR \o <<"notes.txt">> :> SourceFile(1))
    @@ (SOURCE_DIR \o <<"c.md">> :> SourceFile(1))
    @@ (D1 \o <<"x.md">> :> SourceFile(1))
    @@ (D1 \o <<"w.md">> :> SourceFile(1))
    @@ (DD \o <<"y.markdown">> :> SourceFile(1))
    @@ (D2 \o <<"z.md">> :> SourceFile(1))

ScanListing ==
  (SOURCE_DIR :> <<"a.md", "d1", "notes.txt", "d2", "c.md">>)
    @@ (D1 :> <<"x.md", "dd", "w.md">>)
    @@ (DD :> <<"y.markdown">>)
    @@ (D2 :> <<"z.md">>)

\* readdir returns, after the first entry, a name that stat will not find
WithGhost(entries) == <<Head(entries), "ghost.md">> \o Tail(entries)

\* the tree whose directories in unreadable cannot be read and whose
\* directories in dangling list a name that is not there
ScanTree(unreadable, dangling) ==
  [nodes   |-> ScanNodes,
   listing |-> [d \in ScanDirs \ unreadable |->
                  IF d \in dangling THEN WithGhost(ScanListing[d]) ELSE ScanListing[d]]]

InitScan ==
  /\ \E unreadable \in SUBSET ScanDirs, dangling \in SUBSET ScanDirs :
       LET tree == ScanTree(unreadable, dangling)
       IN  /\ fs = tree.nodes @@ Cwd
           /\ listing = tree.listing
           /\ fsAtStart = tree.nodes @@ Cwd
  /\ now = 1
  /\ MODEL_NAME = "g.2"
  /\ MODEL_DIR_NAME = SanitizeModelName(MODEL_NAME)
  /\ OUTPUT_DIR = OutputDirOf(MODEL_DIR_NAME)
  /\ FORCE_TRANSLATE = FALSE
  /\ pc = "main"
  /\ markdownFiles = <<>>
  /\ idx = 1
  /\ translatedCount = 0
  /\ skippedCount = 0
  /\ exitCode = -1
  /\ events = <<>>
  /\ prev = NoPrev
  /\ runNo = 1
  /\ touches = 0
  /\ faults = 0

\* the process up to the end of the scan
NextScan ==
  \/ checkSourceDirectory
  \/ translateMarkdownFiles

SpecScan == InitScan /\ [][NextScan]_vars

(***************************** reading the record ***************************)
\* the running process did e for item i
Has(e, i) == \E k \in 1..Len(events) : events[k].ev = e /\ events[k].i = i
\* the items the batch loop is through with
Finished == 1..(idx - 1)
\* the process ended by printing the summary of a batch
SummaryPrinted == pc = "exited" /\ exitCode = 0 /\ markdownFiles # <<>>
\* the file p is there, written for source file and no older than it
CurrentAt(f, p, file) ==
  Exists(f, p) /\ Exists(f, file) /\ f[p].kind = "file" /\ f[p].mtime >= f[file].mtime
\* where a document's translation is to be: sourceRoot/<rel> -> <root>/<dir>/<rel>
RelOf(file) == SubSeq(file, Len(SOURCE_DIR) + 1, Len(file))
Mirror(dir, file) == BASE_OUTPUT_DIR \o <<dir>> \o RelOf(file)
IsDocument(p) == EndsWith(Last(p), ".md") \/ EndsWith(Last(p), ".markdown")
\* dir is model with every character other than a letter, a digit, "_", "."
\* and "-" replaced by "_"
ReplacedName(model, dir) ==
  /\ Len(dir) = Len(model)
  /\ \A n \in 1..Len(model) :
       SubSeq(dir, n, n) = IF SubSeq(model, n, n) \in WordChars \cup {".", "-"}
                             THEN SubSeq(model, n, n) ELSE "_"

(***************************** C1 *******************************************)
\* C1: idempotence across runs.  When the previous run was without force and
\* saved every document it discovered, no source was modified since, and this
\* run has the same model and no force, then this run issues no translation
\* request and ends with translatedCount = 0 and skippedCount = the number of
\* documents discovered.
C1_Idempotence ==
  ( /\ runNo >= 2
    /\ prev.exitCode = 0 /\ ~prev.force
    /\ prev.saved = 1..Len(prev.files)
    /\ prev.modified = {}
    /\ prev.model = MODEL_NAME /\ ~FORCE_TRANSLATE )
  => /\ \A i \in 1..Len(markdownFiles) : ~Has("request", i)
     /\ SummaryPrinted =>
          /\ translatedCount = 0
          /\ skippedCount = Len(markdownFiles)

(***************************** C2 *******************************************)
\* C2: staleness correctness.  Without force, the step that decides on a
\* document skips it exactly when a file is at the path the output writer
\* writes for that document, with an mtime >= the source's mtime.
C2_SkipIffOwnOutputCurrent ==
  [][ (pc = "batch" /\ idx <= Len(markdownFiles) /\ ~FORCE_TRANSLATE)
        => ( (skippedCount' = skippedCount + 1)
               <=> CurrentAt(fs, SaveOutputPath(OUTPUT_DIR, markdownFiles[idx]),
                             markdownFiles[idx]) ) ]_vars

(***************************** C3 *******************************************)
\* what the save step may do to the file system when the translation of the
\* current document belongs at <output root>/dir/<rel>: it changes or creates
\* no file but that one, removes and alters nothing else, creates directories
\* only on the way to it, and when it has written, the file is there with this
\* document's translation and every directory above it exists
SaveWritesExactly(dir) ==
  LET file == markdownFiles[idx]
      out  == Mirror(dir, file)
  IN  /\ \A q \in DOMAIN fs' :
           (IsFile(fs', q) /\ (q \notin DOMAIN fs \/ fs'[q] # fs[q])) => q = out
      /\ \A q \in DOMAIN fs : q \in DOMAIN fs' /\ (q # out => fs'[q] = fs[q])
      /\ \A q \in DOMAIN fs' \ DOMAIN fs : q \in Prefixes(out)
      /\ Has("write", idx)' =>
           /\ IsFile(fs', out)
           /\ fs'[out].content.of = file
           /\ \A q \in Prefixes(PathDirname(out)) : IsDir(fs', q)

\* C3 as stated: path mirroring with the model identifier itself as the
\* directory: the document at sourceRoot/<rel> is written to exactly
\* outputRoot/<model>/<rel>, and nothing else is written.
C3_MirrorVerbatim == [][pc = "save" => SaveWritesExactly(MODEL_NAME)]_vars

\* C3 amended: path mirroring: the document at sourceRoot/<rel> is written to
\* exactly outputRoot/<dir>/<rel>, <dir> being the model identifier with every
\* character other than a letter, a digit, "_", "." and "-" replaced by "_";
\* missing directories on the way are created and nothing else is written.
C3_MirrorSanitized ==
  [][pc = "save" => /\ ReplacedName(MODEL_NAME, MODEL_DIR_NAME)
                    /\ SaveWritesExactly(MODEL_DIR_NAME)]_vars

\* a nested document was written under a model name that needs replacing, into
\* a directory that was not there when the run began
C3_Witness ==
  /\ pc = "delay"
  /\ Has("write", idx)
  /\ MODEL_NAME = "g/2"
  /\ Len(RelOf(markdownFiles[idx])) > 1
  /\ ~Exists(fsAtStart, PathDirname(Mirror("g_2", markdownFiles[idx])))
  /\ IsFile(fs, Mirror("g_2", markdownFiles[idx]))

(***************************** C4 *******************************************)
\* C4: failure isolation.  Whatever items fail in translation, every item is
\* taken up; every item neither skipped nor unreadable is sent to the service;
\* each one whose translation came back and whose write did not fail is saved
\* at its output path; and the final translatedCount is the number of items
\* whose translation succeeded.
C4_FailureIsolation ==
  /\ \A i \in Finished :
       /\ Has("begin", i)
       /\ (~Has("skip", i) /\ ~Has("readfail", i)) => Has("request", i)
       /\ (Has("response", i) /\ ~Has("writefail", i)) =>
            /\ Has("write", i)
            /\ IsFile(fs, SaveOutputPath(OUTPUT_DIR, markdownFiles[i]))
            /\ fs[SaveOutputPath(OUTPUT_DIR, markdownFiles[i])].content.of = markdownFiles[i]
  /\ (pc = "exited" /\ exitCode = 0) =>
       /\ Finished = 1..Len(markdownFiles)
       /\ translatedCount =
            Cardinality({i \in 1..Len(markdownFiles) : Has("response", i)})

\* the service failed for item 1 of 2; item 2 is saved all the same and the
\* count is 1
C4_Witness ==
  /\ SummaryPrinted
  /\ Len(markdownFiles) = 2
  /\ Has("request", 1) /\ Has("empty", 1)
  /\ Has("write", 2)
  /\ IsFile(fs, SaveOutputPath(OUTPUT_DIR, markdownFiles[2]))
  /\ translatedCount = 1

(***************************** C5 *******************************************)
\* C5: force override.  With force the staleness check is never made, nothing
\* is skipped, skippedCount stays 0, and every item the loop is through with
\* was either unreadable or sent to the translation service; at the end the
\* loop is through with every discovered item.
C5_ForceOverride ==
  FORCE_TRANSLATE =>
    /\ \A k \in 1..Len(events) : events[k].ev \notin {"stat", "skip"}
    /\ skippedCount = 0
    /\ \A i \in Finished : Has("readfail", i) \/ Has("request", i)
    /\ SummaryPrinted => Finished = 1..Len(markdownFiles)

\* a force run sent a document although its translation was current, at its
\* own output path and at the path the staleness check looks at
C5_Witness ==
  /\ FORCE_TRANSLATE
  /\ SummaryPrinted
  /\ \E i \in 1..Len(markdownFiles) :
       /\ Has("request", i)
       /\ isAlreadyTranslated(fsAtStart, OUTPUT_DIR, markdownFiles[i])
       /\ CurrentAt(fsAtStart, SaveOutputPath(OUTPUT_DIR, markdownFiles[i]),
                    markdownFiles[i])

(***************************** C6 *******************************************)
\* C6: the translated counter counts an item only when its output file was
\* actually written: translatedCount is the number of items written; an item
\* whose write failed is counted neither as translated nor as skipped.
C6_CountedOnlyWhenWritten ==
  translatedCount = Cardinality(SavedItems)

(***************************** C7 *******************************************)
\* C7 as stated: pacing after every item: whenever the loop takes up an item
\* other than the first, the step just before was the pacing delay of the item
\* before it.
C7_DelayAfterEveryItem ==
  \A k \in 2..Len(events) :
    (events[k].ev = "begin" /\ events[k].i > 1)
      => (events[k - 1].ev = "delay" /\ events[k - 1].i = events[k].i - 1)

\* C7 amended: pacing after every request: whenever the loop takes up an item
\* other than the first, the step just before was the pacing delay of the item
\* before it exactly when a translation request was issued for that item; a
\* skipped item and an item whose content could not be read are followed by
\* the next item at once.
C7_DelayAfterEveryRequest ==
  \A k \in 2..Len(events) :
    (events[k].ev = "begin" /\ events[k].i > 1)
      => /\ (events[k - 1].ev = "delay" /\ events[k - 1].i = events[k].i - 1)
              <=> Has("request", events[k].i - 1)
         /\ events[k - 1].ev \in {"delay", "skip", "readfail"}

\* an item was taken up right after the delay that followed the failed
\* translation of the item before it
C7_Witness ==
  \E k \in 2..Len(events) :
    /\ events[k].ev = "begin" /\ events[k - 1].ev = "delay"
    /\ Has("request", events[k - 1].i) /\ Has("empty", events[k - 1].i)

(***************************** C8 *******************************************)
\* C8: missing root.  When the source root is not there at process start, the
\* process does nothing but exit with code 1: the scanner does not run, no
\* request is issued, and the file system stays as it was.
C8_MissingRootAborts ==
  ~Exists(fsAtStart, SOURCE_DIR) =>
    /\ pc \in {"main", "exited"}
    /\ events = <<>>
    /\ fs = fsAtStart
    /\ pc = "exited" => exitCode = 1

\* the process has exited with code 1 on a missing source root
C8_Witness ==
  /\ pc = "exited" /\ exitCode = 1
  /\ ~Exists(fs, SOURCE_DIR)
  /\ runNo = 2

(***************************** C9 *******************************************)
\* C9: empty tree.  When the source root exists and no file below it has a
\* markdown name, the batch is empty, no request is issued and no file is
\* written or changed by the process, nothing is created except possibly the
\* output directory, and the process ends normally.
C9_EmptyTree ==
  (Exists(fsAtStart, SOURCE_DIR) /\ \A p \in SourceFiles(fsAtStart) : ~IsDocument(p))
  => /\ markdownFiles = <<>>
     /\ \A k \in 1..Len(events) : events[k].ev \notin {"request", "write", "writefail"}
     /\ \A q \in DOMAIN fsAtStart : q \in DOMAIN fs /\ fs[q] = fsAtStart[q]
     /\ \A q \in DOMAIN fs \ DOMAIN fsAtStart :
          IsDir(fs, q) /\ q \in Prefixes(OUTPUT_DIR)
     /\ pc = "exited" => exitCode = 0

\* the scan of an existing root that holds only a non-markdown file has found
\* nothing and the process has ended normally
C9_Witness ==
  /\ pc = "exited" /\ exitCode = 0
  /\ Has("scan", 0)
  /\ markdownFiles = <<>>
  /\ Exists(fs, SOURCE_DIR)
  /\ SourceFiles(fs) # {}

(***************************** C10 ******************************************)
\* the translated files below <output root>/dir
TranslationsUnder(dir) ==
  {p \in DOMAIN fs : /\ IsFile(fs, p)
                     /\ Len(p) > Len(BASE_OUTPUT_DIR) + 1
                     /\ SubSeq(p, 1, Len(BASE_OUTPUT_DIR) + 1) = BASE_OUTPUT_DIR \o <<dir>>}
StalenessPath(outputDir, file) == PathJoin(outputDir, PathBasename(file))

\* the output directories, output paths and staleness-check paths of the
\* documents of this run and of the previous one differ between the previous
\* run's model and this run's
PathsApart ==
  /\ prev.outputDir # OUTPUT_DIR
  /\ \A file \in {markdownFiles[i] : i \in 1..Len(markdownFiles)}
                   \cup {prev.files[i] : i \in 1..Len(prev.files)} :
       /\ SaveOutputPath(prev.outputDir, file) # SaveOutputPath(OUTPUT_DIR, file)
       /\ StalenessPath(prev.outputDir, file) # StalenessPath(OUTPUT_DIR, file)

\* C10 as stated: model namespacing: the output directory is the output root
\* plus the model identifier itself; when the previous run had another model
\* identifier, its output directory is another one and the output path and the
\* staleness-check path of every document are other ones; and the translations
\* in this model's directory were all made by this model.
C10_VerbatimNamespacing ==
  /\ OUTPUT_DIR = BASE_OUTPUT_DIR \o <<MODEL_NAME>>
  /\ (runNo >= 2 /\ prev.model # MODEL_NAME) => PathsApart
  /\ \A p \in TranslationsUnder(MODEL_DIR_NAME) : fs[p].content.by = MODEL_NAME

\* C10 amended: model namespacing by the replaced name: the output directory
\* is the output root plus the model identifier with every character other
\* than a letter, a digit, "_", "." and "-" replaced by "_"; when the previous
\* run's model identifier has another replaced name, its output directory is
\* another one and the output path and the staleness-check path of every
\* document are other ones; and the translations in this model's directory
\* were all made by models with the same replaced name.
C10_SanitizedNamespacing ==
  /\ pc = "main" => ReplacedName(MODEL_NAME, MODEL_DIR_NAME)
  /\ OUTPUT_DIR = BASE_OUTPUT_DIR \o <<MODEL_DIR_NAME>>
  /\ (runNo >= 2 /\ prev.modelDirName # MODEL_DIR_NAME) => PathsApart
  /\ \A p \in TranslationsUnder(MODEL_DIR_NAME) :
       SanitizeModelName(fs[p].content.by) = MODEL_DIR_NAME

\* a run without force under another replaced name sent a document again whose
\* translation by the previous run's model was current, and wrote its own
C10_Witness ==
  /\ runNo = 2 /\ ~FORCE_TRANSLATE
  /\ prev.modelDirName # MODEL_DIR_NAME
  /\ \E i \in 1..Len(markdownFiles) :
       /\ CurrentAt(fsAtStart, StalenessPath(prev.outputDir, markdownFiles[i]), markdownFiles[i])
       /\ CurrentAt(fsAtStart, SaveOutputPath(prev.outputDir, markdownFiles[i]), markdownFiles[i])
       /\ Has("write", i)
       /\ fs[SaveOutputPath(OUTPUT_DIR, markdownFiles[i])].content.by = MODEL_NAME
       /\ fs[SaveOutputPath(prev.outputDir, markdownFiles[i])].content.by = prev.model

(***************************** C11 ******************************************)
\* the documents of the tree of the scanner specification, in the order a scan
\* without errors meets them
ScanDocsInOrder ==
  << SOURCE_DIR \o <<"a.md">>, D1 \o <<"x.md">>, DD \o <<"y.markdown">>,
     D1 \o <<"w.md">>, D2 \o <<"z.md">>, SOURCE_DIR \o <<"c.md">> >>

\* the scan of directory d meets an error: d cannot be read, or one of the
\* names it lists is not found
ScanFails(d) ==
  \/ d \notin DOMAIN listing
  \/ \E n \in 1..Len(listing[d]) : ~Exists(fs, d \o <<listing[d][n]>>)

\* the directories from the source root down to the one that holds p
DirsAbove(p) == {SubSeq(p, 1, n) : n \in Len(SOURCE_DIR)..(Len(p) - 1)}

OutsideFailedSubtrees(p) == \A d \in DirsAbove(p) : ~ScanFails(d)

\* C11: scanner error localisation.  The scan ends normally whatever
\* directories fail, and returns, in order, exactly the documents that lie in
\* the subtree of no failing directory: nothing from the subtree of a
\* directory whose scan met an error, and every document outside of it.
C11_ScanErrorLocal ==
  Has("scan", 0) =>
    /\ markdownFiles = SelectSeq(ScanDocsInOrder, OutsideFailedSubtrees)
    /\ exitCode # 1
    /\ pc \in {"batch", "exited"}

\* d1 lists a name that is not there while d1/dd and d2 are fine: the scan
\* returns the documents before and after d1 at the root and the one in d2,
\* and none of d1's subtree
C11_Witness ==
  /\ Has("scan", 0)
  /\ D1 \in DOMAIN listing /\ ScanFails(D1)
  /\ ~ScanFails(SOURCE_DIR) /\ ~ScanFails(DD) /\ ~ScanFails(D2)
  /\ markdownFiles = << SOURCE_DIR \o <<"a.md">>, D2 \o <<"z.md">>,
                        SOURCE_DIR \o <<"c.md">> >>

(***************************** C12 ******************************************)
\* the items of this run
Items == 1..Len(markdownFiles)

\* the path p is in f2 what it was in f1: absent in both, or the same node
SameAt(f1, f2, p) ==
  /\ p \in DOMAIN f1 <=> p \in DOMAIN f2
  /\ p \in DOMAIN f1 => f1[p] = f2[p]

\* saveTranslatedFile was called for item i
SaveCalled(i) == Has("write", i) \/ Has("writefail", i)

\* C12: empty translation results are never persisted.  For an item whose
\* request came back empty (a service error included) saveTranslatedFile is
\* never called, the item's output path is what it was when the run began, and
\* translatedCount counts only items for which the save was called, so never
\* this one.
C12_EmptyNeverPersisted ==
  /\ \A i \in Items :
       Has("empty", i) =>
         /\ ~SaveCalled(i)
         /\ ~Has("response", i)
         /\ SameAt(fsAtStart, fs, SaveOutputPath(OUTPUT_DIR, markdownFiles[i]))
  /\ translatedCount = Cardinality({i \in Items : SaveCalled(i)})

\* a run is over in which the request of an item came back empty while an
\* output file of an earlier run was there for it
C12_Witness ==
  /\ pc = "exited"
  /\ \E i \in Items :
       /\ Has("empty", i)
       /\ Has("delay", i)
       /\ IsFile(fs, SaveOutputPath(OUTPUT_DIR, markdownFiles[i]))

(***************************** C13 ******************************************)
\* the events that end the work on an item
TerminalEvents == {"skip", "readfail", "empty", "write", "writefail"}

\* the number of events of kind e in the record of the run
CountOf(e) == Cardinality({k \in 1..Len(events) : events[k].ev = e})

\* requests sent whose answer has not come back
InFlight == CountOf("request") - CountOf("response") - CountOf("empty")

\* C13: strictly sequential processing.  Every step taken for an item is taken
\* for the file at that position of the scanner's list, no step for an item
\* follows a step for a later one, before the first step for item i+1 item i
\* has reached its terminal event, and never is more than one translation
\* request out.
C13_Sequential ==
  /\ \A k \in 1..Len(events) :
       LET e == events[k]
       IN  e.i > 0 =>
             /\ e.i \in Items
             /\ e.ev \notin {"write", "writefail"} => e.path = markdownFiles[e.i]
             /\ \A j \in 1..(k - 1) : events[j].i <= e.i
             /\ e.i > 1 =>
                  \E j \in 1..(k - 1) :
                    events[j].i = e.i - 1 /\ events[j].ev \in TerminalEvents
  /\ InFlight \in {0, 1}
  /\ InFlight = 1 <=> pc = "translate"

\* a run is over in which requests went out for two items, the second after
\* the first was answered
C13_Witness ==
  /\ pc = "exited"
  /\ Has("request", 1) /\ Has("request", 2)
  /\ SaveCalled(1)

(***************************** C14 ******************************************)
\* the items that ended without a usable output: unreadable, no translation,
\* or the output could not be written
FailedItems ==
  {i \in Items : Has("readfail", i) \/ Has("empty", i) \/ Has("writefail", i)}

\* the items whose processing has begun
BegunItems == {i \in Items : Has("begin", i)}

\* within a run, between the scan and the summary
InBatch == pc \in {"batch", "read", "translate", "save", "delay"}

\* C14: counter invariant.  Within a run the two counters never decrease and
\* a step raises at most one of them, by one; their sum is at most the number
\* of items processed so far, which is at most the number discovered; and when
\* the summary is printed the items counted by neither are the Failed ones.
C14_CounterInvariant ==
  /\ [](/\ translatedCount + skippedCount <= Cardinality(BegunItems)
        /\ Cardinality(BegunItems) <= Len(markdownFiles)
        /\ SummaryPrinted =>
             Len(markdownFiles) - translatedCount - skippedCount
               = Cardinality(FailedItems))
  /\ [][InBatch =>
          /\ translatedCount' \in {translatedCount, translatedCount + 1}
          /\ skippedCount' \in {skippedCount, skippedCount + 1}
          /\ translatedCount' + skippedCount'
               <= translatedCount + skippedCount + 1]_vars

(***************************** C15 ******************************************)
\* C15: read failure handling.  An item that was not skipped and whose read
\* failed or gave no content ends there: no request goes out for it, the save
\* is not called and its output path is what it was when the run began, it is
\* in neither counter, and the loop goes on: the run ends with the summary
\* only after every later item was begun.
C15_ReadFailure ==
  /\ \A i \in Items :
       Has("readfail", i) =>
         /\ ~Has("skip", i)
         /\ ~Has("request", i)
         /\ ~SaveCalled(i)
         /\ SameAt(fsAtStart, fs, SaveOutputPath(OUTPUT_DIR, markdownFiles[i]))
         /\ pc = "exited" =>
              /\ SummaryPrinted
              /\ \A j \in Items : j > i => Has("begin", j)
  /\ translatedCount = Cardinality({i \in Items : SaveCalled(i)})
  /\ skippedCount = Cardinality({i \in Items : Has("skip", i)})

\* a run is over in which the first document could not be read and the second
\* was translated and saved
C15_Witness ==
  /\ SummaryPrinted
  /\ Has("readfail", 1)
  /\ Has("write", 2)
  /\ translatedCount = 1 /\ skippedCount = 0

(***************************** C16 ******************************************)
\* the events of item i whose kind is in kinds
EventsOf(i, kinds) ==
  {k \in 1..Len(events) : events[k].i = i /\ events[k].ev \in kinds}

\* the run ended with the summary, every item was begun once and reached one
\* terminal event
RunComplete ==
  /\ SummaryPrinted
  /\ Has("summary", 0)
  /\ \A i \in Items :
       /\ Cardinality(EventsOf(i, {"begin"})) = 1
       /\ Cardinality(EventsOf(i, TerminalEvents)) = 1

\* C16: termination.  When every call returns, a run that has discovered
\* documents goes on, whatever errors the items meet, until every item has
\* been begun once and has reached exactly one of skipped, saved or failed,
\* and the summary is printed.
C16_Termination == InBatch ~> RunComplete

\* a run of two documents is complete in which one item failed
C16_Witness ==
  /\ RunComplete
  /\ Len(markdownFiles) = 2
  /\ FailedItems # {}

(***************************** C17 ******************************************)
\* C17: spacing of requests.  Between the return of a translation request,
\* with a translation or without, and the next request of the same run lies a
\* pacing delay, whatever happens in between: a failed save, skipped items,
\* items that could not be read.
C17_RequestSpacing ==
  \A k \in 1..Len(events) : \A l \in (k + 1)..Len(events) :
    (events[k].ev \in {"response", "empty"} /\ events[l].ev = "request")
      => \E m \in (k + 1)..(l - 1) : events[m].ev = "delay"

\* requests went out for the first and the third document, and the second
\* was skipped or could not be read in between
C17_Witness ==
  /\ Has("request", 1) /\ Has("request", 3)
  /\ Has("skip", 2) \/ Has("readfail", 2)

(***************************** C18 ******************************************)
\* the paths saveTranslatedFile may create or write for item i: the output
\* file and the directories above it
SavePaths(i) == Prefixes(SaveOutputPath(OUTPUT_DIR, markdownFiles[i]))

\* C18: failed and skipped items leave the file system alone.  Whatever in
\* the file system is not as it was when the run began lies on the output
\* path of an item for which the save was called; so an item that was
\* skipped, could not be read or got no translation has created no file and
\* no directory, and an output file that was there for it has its content
\* and its mtime.
C18_FailedLeavesOutput ==
  /\ \A p \in DOMAIN fs \cup DOMAIN fsAtStart :
       ~SameAt(fsAtStart, fs, p) => \E i \in Items : SaveCalled(i) /\ p \in SavePaths(i)
  /\ \A i \in Items :
       (Has("skip", i) \/ Has("readfail", i) \/ Has("empty", i))
         => /\ ~SaveCalled(i)
            /\ SameAt(fsAtStart, fs, SaveOutputPath(OUTPUT_DIR, markdownFiles[i]))
  /\ (\A i \in Items : ~SaveCalled(i)) => fs = fsAtStart

\* a run is over in which the first document, translated by an earlier run,
\* could not be read, and the second was written anew
C18_Witness ==
  /\ SummaryPrinted
  /\ Has("readfail", 1)
  /\ IsFile(fsAtStart, SaveOutputPath(OUTPUT_DIR, markdownFiles[1]))
  /\ Has("write", 2)
  /\ fs # fsAtStart

====
